---- MODULE Spec2Model ----
(***************************************************************************)
(* The session loop and paper-portfolio ledger of LiveTradingDemo          *)
(* (src/components/LiveTradingDemo.tsx): React state, the polling effect   *)
(* with the closure it captures, the asynchronous steps of every tick,     *)
(* and the Start / Stop / Reset / symbol handlers.                         *)
(*                                                                         *)
(* Prices are whole currency units.  A timestamp (Date, toLocaleTimeString)*)
(* is the number of the tick that took it.  A PricePoint's volume and      *)
(* prediction, a Signal's reasoning and the currentQuote state are read by *)
(* the rendering only, by no condition or update of the code, and are left *)
(* out.                                                                    *)
(***************************************************************************)
EXTENDS Integers, Sequences, FiniteSets, TLC

\* ------------------------------------------------------------ constants
StartingCash == 10000
ConfidenceThreshold == 75
PriceKeep == 50
TradeKeep == 9
SizingDivisor == 10

\* ------------------------------------------------------------ bounds
MaxTicks == 2
MaxInFlight == 2
MaxTicksTrades == 12
MaxTicksPrices == 52

Symbols == {"AAPL", "TSLA"}
Actions == {"BUY", "SELL", "HOLD"}
None == [none |-> TRUE]
NoPositions == [s \in {} |-> 0]

\* The inputs of one scenario: what the quote and analysis sources may
\* answer, and how many ticks and simultaneous ticks are explored.
Analysis(a, c) == [action |-> a, confidence |-> c]
Env ==
  [prices |-> {100},
   analyses |-> {Analysis("BUY", 80), Analysis("HOLD", 80)},
   symbols |-> Symbols, maxTicks |-> MaxTicks, maxInFlight |-> MaxInFlight,
   userTicks |-> MaxTicks + 1]

VARIABLES
  isRunning,        \* useState(false)
  selectedSymbol,   \* useState('AAPL')
  portfolio,        \* useState({cash, positions, totalValue})
  priceData,        \* useState<PricePoint[]>([])
  currentSignal,    \* useState<TradeSignal | null>(null)
  tradeHistory,     \* useState<any[]>([])
  aiThinking,       \* useState(false)
  apiStatus,        \* useState('loading')
  interval,         \* the live setInterval handle with the closure of its effect, or None
  ticks,            \* the fetchRealData / analyzeAndTrade calls in flight, by slot
  nTicks,           \* number of fetchRealData calls made so far
  mounted,          \* the component is mounted
  timers,           \* number of setInterval handles not yet cleared
  pointLog,         \* every PricePoint appended since priceData was last cleared
  tradeLog          \* every Trade recorded since tradeHistory was last cleared

vars == <<isRunning, selectedSymbol, portfolio, priceData, currentSignal,
          tradeHistory, aiThinking, apiStatus, interval, ticks,
          nTicks, mounted, timers, pointLog, tradeLog>>

Min(a, b) == IF a < b THEN a ELSE b
Max(a, b) == IF a > b THEN a ELSE b

\* ------------------------------------------------------------ pure parts

\* (prev.positions[symbol] || 0)
Held(positions, s) == IF s \in DOMAIN positions THEN positions[s] ELSE 0

\* {...prev.positions, [symbol]: q}
WithPosition(positions, s, q) ==
  [x \in DOMAIN positions \cup {s} |-> IF x = s THEN q ELSE positions[x]]

AppendPointKeepOldest(prev, point) ==
  LET all == Append(prev, point)
  IN  SubSeq(all, 1, Min(Len(all), PriceKeep))

\* [...prev, point].slice(-50)
AppendPoint(prev, point) ==
  LET all == Append(prev, point)
  IN  SubSeq(all, Max(1, Len(all) - PriceKeep + 1), Len(all))

PushTradeUncapped(prev, trade) == <<trade>> \o prev

\* [trade, ...prev.slice(0, 9)]
PushTrade(prev, trade) ==
  <<trade>> \o SubSeq(prev, 1, Min(Len(prev), TradeKeep))

\* Math.floor(portfolio.cash / signal.price / 10)
TradeQuantity(cash, price) == cash \div (price * SizingDivisor)

ShouldTradeAtThreshold(action, confidence) ==
  confidence >= ConfidenceThreshold /\ action # "HOLD"

\* analysis.confidence > 75 && analysis.action !== 'HOLD'
ShouldTrade(action, confidence) ==
  confidence > ConfidenceThreshold /\ action # "HOLD"

\* the two setPortfolio updaters of executeTrade
BuyUpdate(prev, s, quantity, price) ==
  [prev EXCEPT !.cash = prev.cash - quantity * price,
               !.positions = WithPosition(prev.positions, s,
                                          Held(prev.positions, s) + quantity)]

SellUpdateUnclamped(prev, s, quantity, price) ==
  [prev EXCEPT !.cash = prev.cash + quantity * price,
               !.positions = WithPosition(prev.positions, s,
                                          Held(prev.positions, s) - quantity)]

SellUpdate(prev, s, quantity, price) ==
  [prev EXCEPT !.cash = prev.cash + quantity * price,
               !.positions = WithPosition(prev.positions, s,
                                 Max(0, Held(prev.positions, s) - quantity))]

InitialPortfolio ==
  [cash |-> StartingCash, positions |-> NoPositions, totalValue |-> StartingCash]

\* ------------------------------------------------------------ ticks

FreeTick ==
  [pc |-> "free", id |-> 0, symbol |-> "", apiStatus |-> "", cash |-> 0,
   price |-> 0, action |-> "", confidence |-> 0,
   quotes |-> 0, points |-> 0, signals |-> 0]

AllSlots == 1 .. MaxInFlight
Slots(e) == 1 .. Min(e.maxInFlight, MaxInFlight)
Pending == {"quote", "analysis", "thinking"}
InFlight == {t \in DOMAIN ticks : ticks[t].pc \in Pending}

\* The values the functions of one render close over: the effect of that
\* render keeps fetchRealData, and through it analyzeAndTrade and
\* executeTrade, with the selectedSymbol, apiStatus and portfolio of the
\* render that installed it.
Closure == [symbol |-> selectedSymbol, apiStatus |-> apiStatus, cash |-> portfolio.cash]

\* The user presses a button or picks a symbol only while fewer than
\* e.userTicks ticks have been dispatched; after that the session is left to
\* run.
UserActs(e) == nTicks < e.userTicks

CanDispatch(e) ==
  /\ nTicks < e.maxTicks
  /\ \E t \in Slots(e) : ticks[t].pc \notin Pending

\* fetchRealData() up to its first await: setApiStatus('loading'), then the
\* quote request is pending.
Dispatch(e, c) ==
  LET t == CHOOSE x \in Slots(e) :
             /\ ticks[x].pc \notin Pending
             /\ \A y \in Slots(e) : ticks[y].pc \notin Pending => x <= y
  IN  /\ ticks' = [ticks EXCEPT ![t] =
                     [FreeTick EXCEPT !.pc = "quote", !.id = nTicks + 1,
                                      !.symbol = c.symbol, !.apiStatus = c.apiStatus,
                                      !.cash = c.cash]]
      /\ nTicks' = nTicks + 1
      /\ apiStatus' = "loading"

\* ------------------------------------------------------------ initial state

Init ==
  /\ isRunning = FALSE
  /\ selectedSymbol = "AAPL"
  /\ portfolio = InitialPortfolio
  /\ priceData = <<>>
  /\ currentSignal = None
  /\ tradeHistory = <<>>
  /\ aiThinking = FALSE
  /\ apiStatus = "loading"
  /\ interval = None
  /\ ticks = [t \in AllSlots |-> FreeTick]
  /\ nTicks = 0
  /\ mounted = TRUE
  /\ timers = 0
  /\ pointLog = <<>>
  /\ tradeLog = <<>>

\* ------------------------------------------------------------ handlers

\* The cleanup the effect returned (line 135), which React runs before the
\* effect runs again and at unmount: clearInterval of the handle the effect
\* holds.  An effect that returned early (line 58) has no cleanup.
Cleanup == IF interval # None THEN timers - 1 ELSE timers

startDemoNoFetch(e) ==
  /\ UserActs(e)
  /\ ~isRunning
  /\ isRunning' = TRUE
  /\ priceData' = <<>>
  /\ tradeHistory' = <<>>
  /\ currentSignal' = None
  /\ interval' = Closure
  /\ timers' = Cleanup + 1
  /\ pointLog' = <<>>
  /\ tradeLog' = <<>>
  /\ UNCHANGED <<selectedSymbol, portfolio, aiThinking, mounted, ticks, nTicks,
                 apiStatus>>

startDemoResetsPortfolio(e) ==
  /\ UserActs(e)
  /\ ~isRunning
  /\ CanDispatch(e)
  /\ isRunning' = TRUE
  /\ priceData' = <<>>
  /\ tradeHistory' = <<>>
  /\ currentSignal' = None
  /\ portfolio' = InitialPortfolio
  /\ interval' = Closure
  /\ timers' = Cleanup + 1
  /\ Dispatch(e, Closure)
  /\ pointLog' = <<>>
  /\ tradeLog' = <<>>
  /\ UNCHANGED <<selectedSymbol, aiThinking, mounted>>

\* startDemo, the render it causes and the effect of that render: the
\* effect calls fetchRealData once and installs the interval.
startDemo(e) ==
  /\ UserActs(e)
  /\ ~isRunning
  /\ CanDispatch(e)
  /\ isRunning' = TRUE
  /\ priceData' = <<>>
  /\ tradeHistory' = <<>>
  /\ currentSignal' = None
  /\ interval' = Closure
  /\ timers' = Cleanup + 1
  /\ Dispatch(e, Closure)
  /\ pointLog' = <<>>
  /\ tradeLog' = <<>>
  /\ UNCHANGED <<selectedSymbol, portfolio, aiThinking, mounted>>

stopDemoClearsSignal(e) ==
  /\ UserActs(e)
  /\ isRunning
  /\ isRunning' = FALSE
  /\ currentSignal' = None
  /\ interval' = None
  /\ timers' = Cleanup
  /\ UNCHANGED <<selectedSymbol, portfolio, priceData, tradeHistory,
                 aiThinking, apiStatus, ticks, nTicks, mounted, pointLog, tradeLog>>

\* stopDemo, and the cleanup of the effect (clearInterval)
stopDemo(e) ==
  /\ UserActs(e)
  /\ isRunning
  /\ isRunning' = FALSE
  /\ interval' = None
  /\ timers' = Cleanup
  /\ UNCHANGED <<selectedSymbol, portfolio, priceData, currentSignal, tradeHistory,
                 aiThinking, apiStatus, ticks, nTicks, mounted, pointLog, tradeLog>>

resetDemoKeepsPortfolio(e) ==
  /\ UserActs(e)
  /\ isRunning' = FALSE
  /\ priceData' = <<>>
  /\ tradeHistory' = <<>>
  /\ currentSignal' = None
  /\ interval' = None
  /\ pointLog' = <<>>
  /\ tradeLog' = <<>>
  /\ timers' = Cleanup
  /\ UNCHANGED <<portfolio, selectedSymbol, aiThinking, apiStatus, ticks, nTicks, mounted>>

\* resetDemo, and the cleanup of the effect if it was installed
resetDemo(e) ==
  /\ UserActs(e)
  /\ isRunning' = FALSE
  /\ priceData' = <<>>
  /\ tradeHistory' = <<>>
  /\ currentSignal' = None
  /\ portfolio' = InitialPortfolio
  /\ interval' = None
  /\ pointLog' = <<>>
  /\ tradeLog' = <<>>
  /\ timers' = Cleanup
  /\ UNCHANGED <<selectedSymbol, aiThinking, apiStatus, ticks, nTicks, mounted>>

setSelectedSymbolOnly(e, s) ==
  /\ UserActs(e)
  /\ s # selectedSymbol
  /\ selectedSymbol' = s
  /\ UNCHANGED <<isRunning, portfolio, priceData, currentSignal, tradeHistory,
                 aiThinking, apiStatus, interval, timers, ticks, nTicks, mounted,
                 pointLog, tradeLog>>

\* the select's onChange.  selectedSymbol is a dependency of the effect:
\* while running, the old interval is cleared and the effect runs again,
\* calling fetchRealData and installing a new interval.
setSelectedSymbol(e, s) ==
  /\ UserActs(e)
  /\ s # selectedSymbol
  /\ selectedSymbol' = s
  /\ IF isRunning
       THEN /\ CanDispatch(e)
            /\ interval' = [Closure EXCEPT !.symbol = s]
            /\ timers' = Cleanup + 1
            /\ Dispatch(e, [Closure EXCEPT !.symbol = s])
       ELSE UNCHANGED <<interval, timers, ticks, nTicks, apiStatus>>
  /\ UNCHANGED <<isRunning, portfolio, priceData, currentSignal, tradeHistory,
                 aiThinking, mounted, pointLog, tradeLog>>

\* the interval fires: fetchRealData of the effect that installed it
IntervalFires(e) ==
  /\ interval # None
  /\ CanDispatch(e)
  /\ Dispatch(e, interval)
  /\ UNCHANGED <<isRunning, selectedSymbol, portfolio, priceData, currentSignal,
                 tradeHistory, aiThinking, interval, mounted, timers, pointLog, tradeLog>>

\* ------------------------------------------------------------ a tick's steps

\* getFallbackAnalysis(symbol): some well-formed recommendation
FallbackAnalyses(e) == e.analyses
\* getMarketAnalysis(symbol), when it returns one
MarketAnalyses(e) == e.analyses

\* analyzeAndTrade(price) up to its first await, run by tick t whose closure
\* saw apiStatus: setAiThinking(true); with status connected the analysis
\* request is pending, otherwise the fallback analysis a is taken at once and
\* the 1.5 s delay is pending.
BeginAnalysis(t, price, a) ==
  LET k == ticks[t] IN
  /\ aiThinking' = TRUE
  /\ ticks' = [ticks EXCEPT ![t] =
       IF k.apiStatus = "connected"
         THEN [k EXCEPT !.pc = "analysis", !.price = price,
                        !.quotes = k.quotes + 1, !.points = k.points + 1]
         ELSE [k EXCEPT !.pc = "thinking", !.price = price,
                        !.action = a.action, !.confidence = a.confidence,
                        !.quotes = k.quotes + 1, !.points = k.points + 1]]

QuoteSettlesHalts(e, t, outcome, price, a) ==
  LET k == ticks[t]
      point == [time |-> k.id, price |-> price]
  IN
  /\ k.pc = "quote"
  /\ apiStatus' = IF outcome = "quote" THEN "connected" ELSE "fallback"
  /\ priceData' = AppendPoint(priceData, point)
  /\ pointLog' = Append(pointLog, point)
  /\ BeginAnalysis(t, price, a)
  /\ isRunning' = IF outcome = "error" THEN FALSE ELSE isRunning
  /\ interval' = IF outcome = "error" THEN None ELSE interval
  /\ timers' = IF outcome = "error" THEN Cleanup ELSE timers
  /\ UNCHANGED <<selectedSymbol, portfolio, currentSignal, tradeHistory,
                 nTicks, mounted, tradeLog>>

\* The quote request of tick t settles: with a quote (lines 67-84), with
\* nothing (lines 85-104) or by throwing (lines 105-126).  In the last two
\* the price is getFallbackQuote's.
QuoteSettles(e, t, outcome, price, a) ==
  LET k == ticks[t]
      point == [time |-> k.id, price |-> price]
  IN
  /\ k.pc = "quote"
  /\ apiStatus' = IF outcome = "quote" THEN "connected" ELSE "fallback"
  /\ priceData' = AppendPoint(priceData, point)
  /\ pointLog' = Append(pointLog, point)
  /\ BeginAnalysis(t, price, a)
  /\ UNCHANGED <<isRunning, selectedSymbol, portfolio, currentSignal, tradeHistory,
                 interval, nTicks, mounted, timers, tradeLog>>

\* The locals of a finished call are gone; what it did stays counted.
Finished(k, published) ==
  [FreeTick EXCEPT !.pc = "done", !.quotes = k.quotes, !.points = k.points,
                   !.signals = k.signals + published]

AnalysisSettlesUncaught(e, t, outcome, a) ==
  LET k == ticks[t] IN
  /\ k.pc = "analysis"
  /\ ticks' = [ticks EXCEPT ![t] =
       IF outcome = "error"
         THEN Finished(k, 0)
         ELSE [k EXCEPT !.pc = "thinking", !.action = a.action,
                        !.confidence = a.confidence]]
  /\ aiThinking' = IF outcome = "error" THEN FALSE ELSE aiThinking
  /\ UNCHANGED <<isRunning, selectedSymbol, portfolio, priceData, tradeHistory,
                 currentSignal, apiStatus, interval, nTicks, mounted, timers,
                 pointLog, tradeLog>>

AnalysisSettlesFlagStuck(e, t, outcome, a) ==
  LET k == ticks[t] IN
  /\ k.pc = "analysis"
  /\ IF outcome = "error"
       THEN /\ currentSignal' = [action |-> a.action, confidence |-> a.confidence,
                                 price |-> k.price, timestamp |-> k.id]
            /\ ticks' = [ticks EXCEPT ![t] = Finished(k, 1)]
       ELSE /\ ticks' = [ticks EXCEPT ![t] =
                          [k EXCEPT !.pc = "thinking", !.action = a.action,
                                    !.confidence = a.confidence]]
            /\ UNCHANGED currentSignal
  /\ UNCHANGED <<isRunning, selectedSymbol, portfolio, priceData, tradeHistory,
                 aiThinking, apiStatus, interval, nTicks, mounted, timers,
                 pointLog, tradeLog>>

\* getMarketAnalysis of tick t settles (line 146): with an analysis, with
\* nothing (the fallback analysis a is taken, line 151), or by throwing (the
\* catch of lines 172-187 publishes the fallback analysis a and returns).
AnalysisSettles(e, t, outcome, a) ==
  LET k == ticks[t] IN
  /\ k.pc = "analysis"
  /\ IF outcome = "error"
       THEN /\ currentSignal' = [action |-> a.action, confidence |-> a.confidence,
                                 price |-> k.price, timestamp |-> k.id]
            /\ aiThinking' = FALSE
            /\ ticks' = [ticks EXCEPT ![t] = Finished(k, 1)]
       ELSE /\ ticks' = [ticks EXCEPT ![t] =
                          [k EXCEPT !.pc = "thinking", !.action = a.action,
                                    !.confidence = a.confidence]]
            /\ UNCHANGED <<currentSignal, aiThinking>>
  /\ UNCHANGED <<isRunning, selectedSymbol, portfolio, priceData, tradeHistory,
                 apiStatus, interval, nTicks, mounted, timers, pointLog, tradeLog>>

TradeOfSelected(k) ==
  [symbol |-> selectedSymbol, action |-> k.action,
   quantity |-> TradeQuantity(k.cash, k.price), price |-> k.price,
   timestamp |-> k.id, confidence |-> k.confidence]

\* executeTrade(signal) as the closure of tick t runs it: the quantity is
\* sized on the portfolio.cash the closure holds, the trade and the position
\* are of the selectedSymbol the closure holds, and the updaters act on the
\* state of the moment.
TradeOf(k) ==
  [symbol |-> k.symbol, action |-> k.action,
   quantity |-> TradeQuantity(k.cash, k.price), price |-> k.price,
   timestamp |-> k.id, confidence |-> k.confidence]

executeTrade(k) ==
  LET trade == TradeOf(k) IN
  IF trade.quantity > 0
    THEN /\ tradeHistory' = PushTrade(tradeHistory, trade)
         /\ tradeLog' = <<trade>> \o tradeLog
         /\ portfolio' =
              IF k.action = "BUY"
                THEN BuyUpdate(portfolio, k.symbol, trade.quantity, k.price)
                ELSE IF k.action = "SELL"
                  THEN SellUpdate(portfolio, k.symbol, trade.quantity, k.price)
                  ELSE portfolio
    ELSE UNCHANGED <<tradeHistory, tradeLog, portfolio>>

\* The 1.5 s delay of tick t ends (lines 155-171): the signal is published,
\* the thinking flag cleared and the trade executed if the signal calls for it.
ThinkingEnds(t) ==
  LET k == ticks[t] IN
  /\ k.pc = "thinking"
  /\ currentSignal' = [action |-> k.action, confidence |-> k.confidence,
                       price |-> k.price, timestamp |-> k.id]
  /\ aiThinking' = FALSE
  /\ IF ShouldTrade(k.action, k.confidence)
       THEN executeTrade(k)
       ELSE UNCHANGED <<tradeHistory, tradeLog, portfolio>>
  /\ ticks' = [ticks EXCEPT ![t] = Finished(k, 1)]
  /\ UNCHANGED <<isRunning, selectedSymbol, priceData, apiStatus,
                 interval, nTicks, mounted, timers, pointLog>>

\* ------------------------------------------------------------ specifications

QuoteOutcomes == {"quote", "unavailable", "error"}
AnalysisOutcomes == {"analysis", "unavailable", "error"}

NextIn(e) ==
  \/ startDemo(e)
  \/ stopDemo(e)
  \/ resetDemo(e)
  \/ \E s \in e.symbols : setSelectedSymbol(e, s)
  \/ IntervalFires(e)
  \/ \E t \in AllSlots, o \in QuoteOutcomes, p \in e.prices, a \in FallbackAnalyses(e) :
       QuoteSettles(e, t, o, p, a)
  \/ \E t \in AllSlots, o \in AnalysisOutcomes, a \in MarketAnalyses(e) :
       AnalysisSettles(e, t, o, a)
  \/ \E t \in AllSlots : ThinkingEnds(t)

Next == NextIn(Env)
Spec == Init /\ [][Next]_vars

\* The ledger's cases: a price the cash can be sized on and one it cannot,
\* BUY, SELL and HOLD above the threshold and BUY and SELL at and below it,
\* at most two ticks at a time, the user acting at any time.
EnvLedger ==
  [prices |-> {100, 1500},
   analyses |-> {Analysis("BUY", 80), Analysis("SELL", 80), Analysis("HOLD", 80),
                 Analysis("BUY", 75), Analysis("SELL", 70)},
   symbols |-> Symbols, maxTicks |-> MaxTicks, maxInFlight |-> 2,
   userTicks |-> MaxTicks + 1]
NextLedger == NextIn(EnvLedger)
SpecLedger == Init /\ [][NextLedger]_vars

\* A long run of trades: one price, every signal a BUY at confidence 80, one
\* tick at a time, the user acting during the first two ticks only.
EnvTrades ==
  [prices |-> {100}, analyses |-> {Analysis("BUY", 80)},
   symbols |-> Symbols, maxTicks |-> MaxTicksTrades, maxInFlight |-> 1,
   userTicks |-> 2]
NextTrades == NextIn(EnvTrades)
SpecTrades == Init /\ [][NextTrades]_vars

\* A long run of quotes: one price, every signal a HOLD, one tick at a time,
\* the user acting during the first two ticks only.
EnvPrices ==
  [prices |-> {100}, analyses |-> {Analysis("HOLD", 80)},
   symbols |-> Symbols, maxTicks |-> MaxTicksPrices, maxInFlight |-> 1,
   userTicks |-> 2]
NextPrices == NextIn(EnvPrices)
SpecPrices == Init /\ [][NextPrices]_vars

unmountLeaksTimer ==
  /\ mounted
  /\ mounted' = FALSE
  /\ UNCHANGED <<isRunning, selectedSymbol, portfolio, priceData, currentSignal,
                 tradeHistory, aiThinking, apiStatus, interval, timers, ticks,
                 nTicks, pointLog, tradeLog>>

\* The component is unmounted: React runs the cleanup of the effect.  The
\* state is that of the last render from then on: React drops the updates
\* of the continuations still in flight, and no handler can be called.
unmount ==
  /\ mounted
  /\ mounted' = FALSE
  /\ interval' = None
  /\ timers' = Cleanup
  /\ UNCHANGED <<isRunning, selectedSymbol, portfolio, priceData, currentSignal,
                 tradeHistory, aiThinking, apiStatus, ticks, nTicks, pointLog,
                 tradeLog>>

\* The session with the teardown of the view.
NextTeardown ==
  \/ mounted /\ NextIn(Env)
  \/ unmount
SpecTeardown == Init /\ [][NextTeardown]_vars

\* The requests and the delay of every tick settle: a timer fires, and the
\* quote and analysis sources answer, fail or report nothing.
TickFairness ==
  \A t \in AllSlots :
    /\ WF_vars(\E o \in QuoteOutcomes, p \in Env.prices, a \in FallbackAnalyses(Env) :
                 QuoteSettles(Env, t, o, p, a))
    /\ WF_vars(\E o \in AnalysisOutcomes, a \in MarketAnalyses(Env) :
                 AnalysisSettles(Env, t, o, a))
    /\ WF_vars(ThinkingEnds(t))
SpecFair == Init /\ [][Next]_vars /\ TickFairness

\* ------------------------------------------------------------ properties

\* what one step did
Published == currentSignal' # None /\ currentSignal' # currentSignal
Recorded == tradeHistory' # <<>> /\ tradeHistory' # tradeHistory
Appended == priceData' # <<>> /\ priceData' # priceData
LastN(seq, n) == SubSeq(seq, Max(1, Len(seq) - n + 1), Len(seq))
FirstN(seq, n) == SubSeq(seq, 1, Min(Len(seq), n))

\* C1: while the session stays Idle no PricePoint is appended, no Signal is
\* published, no Trade is recorded and the portfolio is not changed (Reset's
\* own clearing apart), also by ticks dispatched before the Stop.
C1_IdleProducesNothing ==
  [][(~isRunning /\ ~isRunning') =>
       /\ ~Appended
       /\ ~Published
       /\ ~Recorded
       /\ portfolio' \in {portfolio, InitialPortfolio}]_vars

C3_QuantityFromCurrentCash ==
  [][Recorded =>
       tradeHistory'[1].quantity = portfolio.cash \div (tradeHistory'[1].price * 10)]_vars

C4_PositionsNonNegative ==
  \A s \in DOMAIN portfolio.positions : portfolio.positions[s] >= 0

\* C4: a recorded BUY of q at p takes exactly q*p from cash and adds q to the
\* position of the trade's symbol; a recorded SELL adds q*p to cash and takes
\* q from the position, floored at 0; other positions are unchanged; and no
\* position is ever negative.
C4_LedgerUpdate ==
  /\ []C4_PositionsNonNegative
  /\ [][Recorded =>
         LET tr == tradeHistory'[1]
             q == tr.quantity
             p == tr.price
             held == Held(portfolio.positions, tr.symbol)
             held2 == Held(portfolio'.positions, tr.symbol)
         IN  /\ tr.action \in {"BUY", "SELL"}
             /\ q > 0
             /\ tr.action = "BUY" =>
                  (portfolio'.cash = portfolio.cash - q * p /\ held2 = held + q)
             /\ tr.action = "SELL" =>
                  /\ portfolio'.cash = portfolio.cash + q * p
                  /\ held2 = (IF held - q > 0 THEN held - q ELSE 0)
             /\ \A s \in Symbols \ {tr.symbol} :
                  Held(portfolio'.positions, s) = Held(portfolio.positions, s)]_vars

\* a SELL of shares that were not held was recorded after a BUY of the other
\* symbol: the sold position is 0, the bought one is kept, the cash is back
C4_Witness ==
  /\ Len(tradeHistory) = 2
  /\ tradeHistory[1].action = "SELL" /\ tradeHistory[2].action = "BUY"
  /\ tradeHistory[1].symbol # tradeHistory[2].symbol
  /\ DOMAIN portfolio.positions = Symbols
  /\ portfolio.positions[tradeHistory[1].symbol] = 0
  /\ portfolio.positions[tradeHistory[2].symbol] = tradeHistory[2].quantity
  /\ portfolio.cash = StartingCash

\* C5: the portfolio's cash is never negative.
C5_CashNonNegative == portfolio.cash >= 0

\* C6: the price history holds at most 50 points, and is the most recent (up
\* to 50) of the points appended since it was last cleared, in arrival order.
C6_PriceHistoryCapped ==
  /\ Len(priceData) <= 50
  /\ priceData = LastN(pointLog, 50)

\* more than 50 points have arrived and the oldest have been evicted
C6_Witness == Len(pointLog) > 50 /\ Len(priceData) = 50 /\ priceData[1].time > 1

\* C7: the trade history holds at most 10 trades, and is the most recent (up
\* to 10) of the trades recorded since it was last cleared, newest first.
C7_TradeHistoryCapped ==
  /\ Len(tradeHistory) <= 10
  /\ tradeHistory = FirstN(tradeLog, 10)

\* more than 10 trades have been recorded and the oldest has been evicted
C7_Witness ==
  /\ Len(tradeLog) > 10
  /\ Len(tradeHistory) = 10
  /\ tradeHistory[10] = tradeLog[10]
  /\ tradeHistory[1].timestamp > tradeHistory[10].timestamp

\* C8: Reset, from any state, leaves the session Idle with cash 10000, no
\* positions, an empty price history, an empty trade history and no Signal.
C8_ResetRestores ==
  [][resetDemo(Env) =>
       /\ ~isRunning'
       /\ portfolio'.cash = 10000
       /\ DOMAIN portfolio'.positions = {}
       /\ priceData' = <<>>
       /\ tradeHistory' = <<>>
       /\ currentSignal' = None]_vars

\* Reset has run while a tick dispatched after a trade was still in flight:
\* the tick holds the cash the trade left, the portfolio is the initial one
C8_Witness ==
  /\ ~isRunning
  /\ portfolio = InitialPortfolio
  /\ priceData = <<>> /\ tradeHistory = <<>> /\ currentSignal = None
  /\ \E t \in InFlight : ticks[t].cash # StartingCash

C9_Counts ==
  \A t \in AllSlots :
    LET k == ticks[t] IN
    /\ k.pc = "quote" => (k.quotes = 0 /\ k.points = 0 /\ k.signals = 0)
    /\ k.pc \in {"analysis", "thinking"} =>
         (k.quotes = 1 /\ k.points = 1 /\ k.signals = 0)
    /\ k.pc = "done" => (k.quotes = 1 /\ k.points = 1 /\ k.signals = 1)

\* C9: every tick takes one quote and appends one PricePoint when its quote
\* request settles, whatever the outcome, has published no Signal before it
\* finishes and exactly one when it has; and every dispatched tick finishes.
C9_OneQuoteOneSignal ==
  /\ []C9_Counts
  /\ [][\A t \in AllSlots :
          /\ (ticks[t].pc = "quote" /\ ticks'[t].pc # "quote") =>
               /\ pointLog' = Append(pointLog, pointLog'[Len(pointLog')])
               /\ pointLog'[Len(pointLog')].time = ticks[t].id
          /\ (ticks[t].pc \in {"analysis", "thinking"} /\ ticks'[t].pc = "done") =>
               (currentSignal' # None /\ currentSignal'.timestamp = ticks[t].id)]_vars
  /\ \A t \in AllSlots : (ticks[t].pc \in Pending) ~> (ticks[t].pc = "done")

\* a tick whose analysis request threw has finished: its Signal, a BUY at
\* confidence 80 that could have been sized, is published and nothing traded
C9_Witness ==
  /\ \E t \in AllSlots : ticks[t].pc = "done" /\ ticks[t].signals = 1
  /\ currentSignal # None
  /\ currentSignal.action = "BUY" /\ currentSignal.confidence = 80
  /\ currentSignal.price = 100
  /\ tradeLog = <<>>
  /\ portfolio.cash = StartingCash

\* C10: at most one tick is in flight at a time.
C10_OneTickInFlight == Cardinality(InFlight) <= 1

\* C11: Start makes the session Running, empties the price history and the
\* trade history, clears the Signal, leaves the portfolio as it was, and in
\* the same step dispatches one tick for the selected symbol and installs
\* the timer.
C11_StartClearsAndFetches ==
  [][(~isRunning /\ isRunning') =>
       /\ priceData' = <<>>
       /\ tradeHistory' = <<>>
       /\ currentSignal' = None
       /\ portfolio' = portfolio
       /\ nTicks' = nTicks + 1
       /\ interval' # None
       /\ \E t \in AllSlots :
            /\ ticks[t].pc \notin Pending
            /\ ticks'[t].pc = "quote"
            /\ ticks'[t].id = nTicks + 1
            /\ ticks'[t].symbol = selectedSymbol]_vars

\* a second Start after a trade: the histories and the Signal are cleared,
\* the cash the trade left is kept, the tick of the Start is in flight
C11_Witness ==
  /\ isRunning
  /\ priceData = <<>> /\ tradeHistory = <<>> /\ currentSignal = None
  /\ portfolio.cash # StartingCash
  /\ \E t \in AllSlots :
       ticks[t].pc = "quote" /\ ticks[t].id = 2 /\ ticks[t].cash = portfolio.cash

\* C12: Stop makes the session Idle and leaves the price history, the trade
\* history, the Signal, the portfolio and the selected symbol as they were.
C12_StopKeepsData ==
  [][(isRunning /\ ~isRunning' /\ ~resetDemo(Env)) =>
       /\ priceData' = priceData
       /\ tradeHistory' = tradeHistory
       /\ currentSignal' = currentSignal
       /\ portfolio' = portfolio
       /\ selectedSymbol' = selectedSymbol]_vars

\* the session was stopped after two ticks, the second sized on the cash the
\* first trade left: both points, both trades and the Signal are still there
C12_Witness ==
  /\ ~isRunning /\ interval = None /\ InFlight = {}
  /\ Len(priceData) = 2
  /\ Len(tradeHistory) = 2
  /\ tradeHistory[1].quantity < tradeHistory[2].quantity
  /\ currentSignal # None
  /\ currentSignal.timestamp = tradeHistory[1].timestamp

\* C13: when the quote request of a tick settles, the tick requests an
\* analysis from the Analysis Source if and only if the status that quote
\* step has just set is connected.
C13_RequestIffConnected ==
  [][\A t \in AllSlots :
       (ticks[t].pc = "quote" /\ ticks'[t].pc # "quote") =>
         (ticks'[t].pc = "analysis" <=> apiStatus' = "connected")]_vars

\* C14 as stated: a change of the selected symbol while Running dispatches
\* no tick and leaves the timer as it is.
C14_SymbolChangeNoTick ==
  [][(isRunning /\ selectedSymbol' # selectedSymbol) =>
       (nTicks' = nTicks /\ interval' = interval)]_vars

\* C14 as amended: a change of the selected symbol while Running dispatches
\* a tick for the new symbol in the same step, and replaces the timer by one
\* of an effect that holds the new symbol; while Idle it dispatches nothing
\* and installs no timer.
C14_SymbolChangeRefetches ==
  [][(selectedSymbol' # selectedSymbol) =>
       IF isRunning
         THEN /\ isRunning'
              /\ nTicks' = nTicks + 1
              /\ interval' # None
              /\ interval' # interval
              /\ interval'.symbol = selectedSymbol'
              /\ timers' = timers
              /\ \E t \in AllSlots :
                   /\ ticks[t].pc \notin Pending
                   /\ ticks'[t].pc = "quote"
                   /\ ticks'[t].id = nTicks + 1
                   /\ ticks'[t].symbol = selectedSymbol'
         ELSE nTicks' = nTicks /\ interval' = None /\ ticks' = ticks]_vars

\* the symbol was changed while Running after a trade of the other symbol:
\* the tick of the change, holding the cash the trade left, is in flight
C14_Witness ==
  /\ isRunning
  /\ tradeHistory # <<>>
  /\ portfolio.cash # StartingCash
  /\ interval # None
  /\ interval.symbol = selectedSymbol
  /\ \E t \in AllSlots :
       /\ ticks[t].pc = "quote"
       /\ ticks[t].symbol = selectedSymbol
       /\ ticks[t].symbol # tradeHistory[1].symbol
       /\ ticks[t].cash = portfolio.cash

\* C15: in every reachable state at most one polling timer is live, and one
\* is live only while the session is Running and the view is mounted: Stop,
\* Reset and teardown release it, Start and symbol changes never leave two.
C15_OneTimerWhileRunning ==
  /\ timers \in {0, 1}
  /\ timers = 1 <=> interval # None
  /\ timers = 1 <=> (isRunning /\ mounted)

\* the view was torn down while Running, after a symbol change had replaced
\* the timer: no timer is live
C15_Witness ==
  /\ ~mounted /\ isRunning
  /\ timers = 0
  /\ \E t, u \in AllSlots :
       /\ ticks[t].pc \in Pending /\ ticks[t].id = 1
       /\ ticks[u].pc \in Pending /\ ticks[u].id = 2
       /\ ticks[t].symbol # ticks[u].symbol
       /\ ticks[u].symbol = selectedSymbol

\* C16: when the quote request of a tick settles, the status becomes
\* connected if it returned a quote and fallback if it returned nothing or
\* threw; the price of that outcome is the price of the tick's PricePoint and
\* the price handed to the analysis; the session stays as it was, Running or
\* not, and the timer stays live.
C16_QuoteFailureRecovered ==
  [][\A t \in AllSlots :
       (ticks[t].pc = "quote" /\ ticks'[t].pc # "quote") =>
         /\ ticks'[t].pc \in {"analysis", "thinking"}
         /\ isRunning' = isRunning
         /\ interval' = interval
         /\ timers' = timers
         /\ apiStatus' \in {"connected", "fallback"}
         /\ pointLog' = Append(pointLog, [time |-> ticks[t].id,
                                          price |-> ticks'[t].price])
         /\ \A o \in QuoteOutcomes, p \in Env.prices, a \in FallbackAnalyses(Env) :
              QuoteSettles(Env, t, o, p, a) =>
                /\ apiStatus' = "connected" <=> o = "quote"
                /\ ticks'[t].price = p]_vars

\* the quote request of the first tick has failed: the status is fallback,
\* the point and the analysis have the same price, the session is Running
\* and its timer can fire
C16_Witness ==
  /\ isRunning /\ interval # None
  /\ apiStatus = "fallback"
  /\ nTicks = 1
  /\ Len(priceData) = 1
  /\ \E t \in AllSlots :
       /\ ticks[t].pc = "thinking"
       /\ priceData[1] = [time |-> ticks[t].id, price |-> ticks[t].price]
  /\ ENABLED IntervalFires(Env)

\* C17: the portfolio changes only in a step that records a Trade or in a
\* Reset; a step that records a Trade records exactly one and changes the
\* portfolio; Start, Stop, symbol changes, quote steps and Signals that
\* record no Trade leave cash and positions as they were.
C17_PortfolioFrame ==
  [][/\ portfolio' # portfolio =>
          \/ Recorded
          \/ /\ portfolio' = InitialPortfolio
             /\ ~isRunning'
             /\ priceData' = <<>> /\ tradeHistory' = <<>> /\ currentSignal' = None
     /\ Recorded =>
          /\ portfolio' # portfolio
          /\ tradeLog' = <<tradeHistory'[1]>> \o tradeLog
     /\ (Published /\ ~Recorded) => portfolio' = portfolio]_vars

\* a BUY changed the portfolio once, and the HOLD Signal of a later tick
\* recorded nothing and left the cash and the position of the BUY
C17_Witness ==
  /\ currentSignal # None
  /\ currentSignal.action = "HOLD"
  /\ Len(tradeLog) = 1
  /\ tradeLog[1].action = "BUY"
  /\ tradeLog[1].timestamp # currentSignal.timestamp
  /\ portfolio.cash = StartingCash - tradeLog[1].quantity * tradeLog[1].price
  /\ Held(portfolio.positions, tradeLog[1].symbol) = tradeLog[1].quantity

\* C18: every recorded Trade is that of the tick whose delay ended in the
\* step: its symbol is the symbol the tick fetched, its price the price of
\* the tick's quote, its action and confidence those of the Signal the tick
\* publishes, and the position changed is that of the same symbol, whatever
\* the selected symbol is by then.
C18_TradeOfItsTick ==
  [][Recorded =>
       LET tr == tradeHistory'[1] IN
       /\ \E t \in AllSlots :
            /\ ticks[t].pc = "thinking" /\ ticks'[t].pc = "done"
            /\ tr.timestamp = ticks[t].id
            /\ tr.symbol = ticks[t].symbol
            /\ tr.price = ticks[t].price
       /\ currentSignal' # None
       /\ currentSignal'.timestamp = tr.timestamp
       /\ currentSignal'.action = tr.action
       /\ currentSignal'.confidence = tr.confidence
       /\ currentSignal'.price = tr.price
       /\ Held(portfolio'.positions, tr.symbol) =
            IF tr.action = "BUY"
              THEN Held(portfolio.positions, tr.symbol) + tr.quantity
              ELSE Max(0, Held(portfolio.positions, tr.symbol) - tr.quantity)
       /\ \A s \in Symbols \ {tr.symbol} :
            Held(portfolio'.positions, s) = Held(portfolio.positions, s)]_vars

\* the symbol was changed while the first tick was in flight: its BUY is
\* recorded for the symbol it fetched and held in that symbol's position,
\* while the tick of the change, for the selected symbol, is in flight
C18_Witness ==
  /\ Len(tradeHistory) = 1
  /\ tradeHistory[1].timestamp = 1
  /\ tradeHistory[1].action = "BUY"
  /\ tradeHistory[1].symbol # selectedSymbol
  /\ Held(portfolio.positions, tradeHistory[1].symbol) = tradeHistory[1].quantity
  /\ Held(portfolio.positions, selectedSymbol) = 0
  /\ portfolio.cash < StartingCash
  /\ \E t \in AllSlots :
       /\ ticks[t].pc \in Pending /\ ticks[t].id = 2
       /\ ticks[t].symbol = selectedSymbol
       /\ ticks[t].cash = StartingCash

\* C19: the thinking flag is false in every state in which no tick is
\* between the start of its analysis and the publication of its Signal, and
\* whenever the flag is true it becomes false again.
C19_ThinkingFlagCleared ==
  /\ []((\A t \in AllSlots : ticks[t].pc \notin {"analysis", "thinking"}) => ~aiThinking)
  /\ (aiThinking ~> ~aiThinking)

\* the session was reset while an analysis request was in flight and the
\* request then threw: the error path published its Signal without a trade
\* and cleared the flag
C19_Witness ==
  /\ ~aiThinking /\ InFlight = {}
  /\ ~isRunning /\ priceData = <<>>
  /\ \E t \in AllSlots : ticks[t].pc = "done" /\ ticks[t].signals = 1
  /\ currentSignal # None
  /\ currentSignal.action = "BUY" /\ currentSignal.confidence = 80
  /\ tradeLog = <<>>

====
